---- MODULE Spec2Model ----
(***************************************************************************)
(* Geometric ray tracer for optical paths (Takenoha/RayTracing).           *)
(*                                                                         *)
(* f32 values are modelled in fixed point: the integer v stands for the    *)
(* real v / Q with Q = 1000, so the self-intersection guard 0.001 is the   *)
(* integer 1.  Points, directions, normals, t-values, radii and refractive *)
(* indices are all fixed-point values.  Products and quotients round to    *)
(* the nearest representable value, as f32 arithmetic does.  The tiny      *)
(* thresholds of the code (1e-6, 1e-4) lie below the resolution 0.001 and  *)
(* become comparisons with zero.  f32::INFINITY is the value INF, larger   *)
(* than every finite value of the model.                                   *)
(*                                                                         *)
(* The arithmetic operators bind their operands once (CHOOSE over a        *)
(* singleton set) so that every operand is evaluated a single time.        *)
(***************************************************************************)
EXTENDS Integers, Sequences, FiniteSets, TLC

Q == 1000
INF == 2000000000

Abs(x) == IF x < 0 THEN -x ELSE x
Min2(a, b) == IF a <= b THEN a ELSE b
Max2(a, b) == IF a >= b THEN a ELSE b

\* n / d rounded to the nearest integer (d # 0)
RoundedQuotient(n, d) ==
  LET s == IF (n < 0) = (d < 0) THEN 1 ELSE -1
      q == Abs(n) \div Abs(d)
      r == Abs(n) % Abs(d)
  IN s * (IF 2 * r >= Abs(d) THEN q + 1 ELSE q)
RDiv(n, d) == CHOOSE r \in { RoundedQuotient(nv, dv) : nv \in {n}, dv \in {d} } : TRUE

\* fixed-point product and quotient
FMul(a, b) == RDiv(a * b, Q)
FDiv(a, b) == RDiv(a * Q, b)

RECURSIVE ISqrtBS(_, _, _)
\* largest s in lo..hi with s * s <= n, by bisection
ISqrtBS(n, lo, hi) ==
  IF lo >= hi THEN lo
  ELSE CHOOSE s \in { IF mid * mid <= n THEN ISqrtBS(n, mid, hi) ELSE ISqrtBS(n, lo, mid - 1)
                      : mid \in {(lo + hi + 1) \div 2} } : TRUE

\* integer square root, rounded to nearest
ISqrtRound(v) ==
  CHOOSE r \in { IF v - s * s > s THEN s + 1 ELSE s : s \in {ISqrtBS(v, 0, 46340)} } : TRUE
ISqrt(n) == CHOOSE r \in { ISqrtRound(v) : v \in {n} } : TRUE

\* f32::sqrt on a fixed-point value x >= 0
FSqrt(x) == ISqrt(x * Q)

(***************************************************************************)
(* glam::Vec3                                                              *)
(***************************************************************************)
ZERO == <<0, 0, 0>>
X == <<Q, 0, 0>>
Y == <<0, Q, 0>>
Z == <<0, 0, Q>>
VNeg(a) == CHOOSE r \in { <<-u[1], -u[2], -u[3]>> : u \in {a} } : TRUE
NEG_X == VNeg(X)
NEG_Y == VNeg(Y)
NEG_Z == VNeg(Z)
VAdd(a, b) ==
  CHOOSE r \in { <<u[1] + v[1], u[2] + v[2], u[3] + v[3]>> : u \in {a}, v \in {b} } : TRUE
VSub(a, b) ==
  CHOOSE r \in { <<u[1] - v[1], u[2] - v[2], u[3] - v[3]>> : u \in {a}, v \in {b} } : TRUE
\* scalar * vector
VScale(s, a) ==
  CHOOSE r \in { <<FMul(k, u[1]), FMul(k, u[2]), FMul(k, u[3])>> : k \in {s}, u \in {a} } : TRUE
\* vector / scalar
VDivS(a, s) ==
  CHOOSE r \in { <<FDiv(u[1], k), FDiv(u[2], k), FDiv(u[3], k)>> : u \in {a}, k \in {s} } : TRUE
dot(a, b) ==
  CHOOSE r \in { RDiv(u[1] * v[1] + u[2] * v[2] + u[3] * v[3], Q) : u \in {a}, v \in {b} } : TRUE
length_squared(a) == CHOOSE r \in { dot(u, u) : u \in {a} } : TRUE
\* Vec3::normalize; the zero vector (NaN in f32) is left as it is
NormalizeBy(u, len) == IF len = 0 THEN u ELSE VDivS(u, len)
normalize(a) ==
  CHOOSE r \in { NormalizeBy(u, FSqrt(length_squared(u))) : u \in {a} } : TRUE

(***************************************************************************)
(* Ray, HitRecord, Material                                                *)
(***************************************************************************)
Mirror == [type |-> "Mirror", ior |-> 0, reflectance |-> 0]
Glass(i) == [type |-> "Glass", ior |-> i, reflectance |-> 0]
HalfMirror(r) == [type |-> "HalfMirror", ior |-> 0, reflectance |-> r]

Ray(o, d, ior) == [origin |-> o, direction |-> d, current_ior |-> ior]

HitRecord(t, p, n, ff, m) ==
  [t |-> t, point |-> p, normal |-> n, front_face |-> ff, material |-> m]

\* ray.origin + t * ray.direction
At(ray, t) == VAdd(ray.origin, VScale(t, ray.direction))

\* the front_face / normal pair every quadric primitive builds from outward_normal
FaceHit(ray, t, outward_normal, material) ==
  LET point == At(ray, t)
      front_face == dot(ray.direction, outward_normal) < 0
      normal == IF front_face THEN outward_normal ELSE VNeg(outward_normal)
  IN HitRecord(t, point, normal, front_face, material)

(***************************************************************************)
(* Hittable objects are records tagged by kind.                            *)
(***************************************************************************)
Sphere(center, radius, material) ==
  [kind |-> "Sphere", center |-> center, radius |-> radius, material |-> material]
Plane(point, normal, material) ==
  [kind |-> "Plane", point |-> point, normal |-> normal, material |-> material]
InfiniteCylinder(axis_point, axis_dir, radius, material) ==
  [kind |-> "InfiniteCylinder", axis_point |-> axis_point, axis_dir |-> axis_dir,
   radius |-> radius, material |-> material]
\* InfiniteCone::new stores axis_dir.normalize() and cos(angle)^2; the model
\* passes cos(angle)^2 as a fixed-point value (45 degrees = 500)
InfiniteCone(vertex, axis_dir, cos_angle_sq, material) ==
  [kind |-> "InfiniteCone", vertex |-> vertex, axis_dir |-> normalize(axis_dir),
   cos_angle_sq |-> cos_angle_sq, material |-> material]
AxisAlignedBox(min, max, material) ==
  [kind |-> "AxisAlignedBox", min |-> min, max |-> max, material |-> material]
CSGObject(left, right, operation) ==
  [kind |-> "CSGObject", left |-> left, right |-> right, operation |-> operation]

(***************************************************************************)
(* Sphere::intersect_all                                                   *)
(***************************************************************************)
Sphere_intersect_all(self, ray, t_min, t_max) ==
  LET oc == VSub(ray.origin, self.center)
      a == length_squared(ray.direction)
      half_b == dot(oc, ray.direction)
      c == length_squared(oc) - FMul(self.radius, self.radius)
      discriminant == FMul(half_b, half_b) - FMul(a, c)
      sqrtd == FSqrt(discriminant)
      t1 == FDiv(-half_b - sqrtd, a)
      t2 == FDiv(-half_b + sqrtd, a)
      Rec(t) == FaceHit(ray, t, VDivS(VSub(At(ray, t), self.center), self.radius),
                        self.material)
      h1 == IF t1 > t_min /\ t1 < t_max THEN <<Rec(t1)>> ELSE <<>>
      \* the second root is emitted only if discriminant > 1e-6
      h2 == IF discriminant > 0 /\ t2 > t_min /\ t2 < t_max THEN <<Rec(t2)>> ELSE <<>>
  IN IF discriminant < 0 THEN <<>> ELSE h1 \o h2

(***************************************************************************)
(* Plane::intersect_all                                                    *)
(***************************************************************************)
Plane_intersect_all(self, ray, t_min, t_max) ==
  LET denom == dot(self.normal, ray.direction)
      t == FDiv(dot(VSub(self.point, ray.origin), self.normal), denom)
      front_face == dot(ray.direction, self.normal) < 0
      normal == IF front_face THEN self.normal ELSE VNeg(self.normal)
  IN IF Abs(denom) < 1 THEN <<>>
     ELSE IF t < t_min \/ t_max < t THEN <<>>
     ELSE <<HitRecord(t, At(ray, t), normal, front_face, self.material)>>

(***************************************************************************)
(* InfiniteCylinder::intersect_all                                         *)
(***************************************************************************)
InfiniteCylinder_intersect_all(self, ray, t_min, t_max) ==
  LET oc == VSub(ray.origin, self.axis_point)
      d_dot_v == dot(ray.direction, self.axis_dir)
      d_perp == VSub(ray.direction, VScale(d_dot_v, self.axis_dir))
      oc_dot_v == dot(oc, self.axis_dir)
      oc_perp == VSub(oc, VScale(oc_dot_v, self.axis_dir))
      a == length_squared(d_perp)
      b == 2 * dot(oc_perp, d_perp)
      c == length_squared(oc_perp) - FMul(self.radius, self.radius)
      discriminant == FMul(b, b) - 4 * FMul(a, c)
      sqrtd == FSqrt(discriminant)
      t1 == FDiv(-b - sqrtd, 2 * a)
      t2 == FDiv(-b + sqrtd, 2 * a)
      Rec(t) ==
        LET point == At(ray, t)
            p_minus_a == VSub(point, self.axis_point)
            projection == dot(p_minus_a, self.axis_dir)
            point_on_axis == VAdd(self.axis_point, VScale(projection, self.axis_dir))
        IN FaceHit(ray, t, normalize(VSub(point, point_on_axis)), self.material)
      In(t) == IF t > t_min /\ t < t_max THEN <<Rec(t)>> ELSE <<>>
  IN IF Abs(a) < 1 THEN <<>>
     ELSE IF discriminant < 0 THEN <<>>
     ELSE In(t1) \o In(t2)

(***************************************************************************)
(* InfiniteCone::intersect_all.  With a = 0 the roots are infinite or NaN  *)
(* in f32 and fail both range comparisons.                                 *)
(***************************************************************************)
InfiniteCone_intersect_all(self, ray, t_min, t_max) ==
  LET co == VSub(ray.origin, self.vertex)
      d_dot_v == dot(ray.direction, self.axis_dir)
      co_dot_v == dot(co, self.axis_dir)
      a == FMul(d_dot_v, d_dot_v) - self.cos_angle_sq
      b == 2 * (FMul(d_dot_v, co_dot_v) - FMul(dot(ray.direction, co), self.cos_angle_sq))
      c == FMul(co_dot_v, co_dot_v) - FMul(length_squared(co), self.cos_angle_sq)
      discriminant == FMul(b, b) - 4 * FMul(a, c)
      sqrtd == FSqrt(discriminant)
      t1 == FDiv(-b - sqrtd, 2 * a)
      t2 == FDiv(-b + sqrtd, 2 * a)
      Rec(t) ==
        LET pv == VSub(At(ray, t), self.vertex)
            m == dot(pv, self.axis_dir)
            outward_normal ==
              normalize(VSub(VScale(m, self.axis_dir), VScale(self.cos_angle_sq, pv)))
        IN FaceHit(ray, t, outward_normal, self.material)
      In(t) == IF t > t_min /\ t < t_max THEN <<Rec(t)>> ELSE <<>>
  IN IF discriminant < 0 THEN <<>>
     ELSE IF a = 0 THEN <<>>
     ELSE In(t1) \o In(t2)

(***************************************************************************)
(* AxisAlignedBox                                                          *)
(***************************************************************************)
\* |x| < epsilon with epsilon = 1e-4
calculate_normal(self, point) ==
  LET p_minus_min == VSub(point, self.min)
      p_minus_max == VSub(point, self.max)
  IN IF Abs(p_minus_min[1]) < 1 THEN NEG_X
     ELSE IF Abs(p_minus_max[1]) < 1 THEN X
     ELSE IF Abs(p_minus_min[2]) < 1 THEN NEG_Y
     ELSE IF Abs(p_minus_max[2]) < 1 THEN Y
     ELSE IF Abs(p_minus_min[3]) < 1 THEN NEG_Z
     ELSE IF Abs(p_minus_max[3]) < 1 THEN Z
     ELSE ZERO

\* x * inv_d; a product beyond the range of the model saturates at +-INF
SatMul(x, inv_d) ==
  IF x = 0 \/ inv_d = 0 THEN 0
  ELSE IF Abs(x) > INF \div Abs(inv_d)
       THEN (IF (x < 0) = (inv_d < 0) THEN INF ELSE -INF)
       ELSE FMul(x, inv_d)

\* One slab of the slab test: <<t0, t1>> after the swap.  A zero direction
\* component makes inv_d infinite: the products are +-INF, or NaN when the
\* origin lies on the slab plane, and f32::max / f32::min ignore a NaN.
Slab(self, ray, i) ==
  LET d == ray.direction[i]
      lo == self.min[i] - ray.origin[i]
      hi == self.max[i] - ray.origin[i]
  IN IF d = 0
     THEN <<IF lo > 0 THEN INF ELSE -INF, IF hi < 0 THEN -INF ELSE INF>>
     ELSE LET inv_d == FDiv(Q, d)
              t0 == SatMul(lo, inv_d)
              t1 == SatMul(hi, inv_d)
          IN IF inv_d < 0 THEN <<t1, t0>> ELSE <<t0, t1>>

RECURSIVE SlabTest(_, _, _, _, _)
\* the loop over the three axes; <<tmin, tmax, hit>>
SlabTest(self, ray, i, tmin, tmax) ==
  IF i > 3 THEN <<tmin, tmax, TRUE>>
  ELSE LET s == Slab(self, ray, i)
           tmin2 == Max2(tmin, s[1])
           tmax2 == Min2(tmax, s[2])
       IN IF tmax2 <= tmin2 THEN <<tmin2, tmax2, FALSE>>
          ELSE SlabTest(self, ray, i + 1, tmin2, tmax2)

AxisAlignedBox_intersect_all(self, ray, t_min, t_max) ==
  LET r == SlabTest(self, ray, 1, t_min, t_max)
      tmin == r[1]
      tmax == r[2]
      point1 == At(ray, tmin)
      normal1 == calculate_normal(self, point1)
      point2 == At(ray, tmax)
      normal2 == VNeg(calculate_normal(self, point2))
  IN IF ~r[3] THEN <<>>
     ELSE << HitRecord(tmin, point1, normal1, dot(ray.direction, normal1) < 0, self.material),
             HitRecord(tmax, point2, normal2, dot(ray.direction, normal2) < 0, self.material) >>

(***************************************************************************)
(* CSGObject::intersect_all                                                *)
(***************************************************************************)
RECURSIVE InsertByT(_, _)
\* insert h after every element with t <= h.t (the stable order of sort_by)
InsertByT(sorted, h) ==
  IF sorted = <<>> THEN <<h>>
  ELSE IF Head(sorted).t <= h.t THEN <<Head(sorted)>> \o InsertByT(Tail(sorted), h)
  ELSE <<h>> \o sorted

RECURSIVE sort_by_t(_)
\* all_hits.sort_by(|a, b| a.t.partial_cmp(&b.t)): a stable sort by t
sort_by_t(hits) ==
  IF hits = <<>> THEN <<>>
  ELSE InsertByT(sort_by_t(SubSeq(hits, 1, Len(hits) - 1)), hits[Len(hits)])

\* hits_left.iter().any(|h| (h.t - hit.t).abs() < 1e-6)
hit_is_on_left(hits_left, hit) ==
  \E k \in 1..Len(hits_left) : Abs(hits_left[k].t - hit.t) < 1

\* the match on self.operation
Inside(operation, in_left, in_right) ==
  CASE operation = "Union" -> in_left \/ in_right
    [] operation = "Intersection" -> in_left /\ in_right
    [] operation = "Difference" -> in_left /\ ~in_right

\* the hit a state change emits
Emit(operation, on_left, hit) ==
  IF operation = "Difference" /\ ~on_left
  THEN [hit EXCEPT !.normal = VNeg(hit.normal), !.front_face = ~hit.front_face]
  ELSE hit

RECURSIVE CSGWalk(_, _, _, _, _, _, _)
\* the for loop over all_hits, from index i on
CSGWalk(operation, hits_left, all_hits, i, in_left, in_right, result_hits) ==
  IF i > Len(all_hits) THEN result_hits
  ELSE LET hit == all_hits[i]
           on_left == hit_is_on_left(hits_left, hit)
           was_inside == Inside(operation, in_left, in_right)
           in_left2 == IF on_left THEN ~in_left ELSE in_left
           in_right2 == IF on_left THEN in_right ELSE ~in_right
           is_inside == Inside(operation, in_left2, in_right2)
           result2 == IF was_inside # is_inside
                      THEN Append(result_hits, Emit(operation, on_left, hit))
                      ELSE result_hits
       IN CSGWalk(operation, hits_left, all_hits, i + 1, in_left2, in_right2, result2)

\* mutant: the walk starts as if the ray began inside the right child
CSGCombine_StartInRight(operation, hits_left, hits_right) ==
  CSGWalk(operation, hits_left, sort_by_t(hits_left \o hits_right), 1, FALSE, TRUE, <<>>)

\* steps 2 and 3 of CSGObject::intersect_all, applied to the two child lists
CSGCombine(operation, hits_left, hits_right) ==
  CSGWalk(operation, hits_left, sort_by_t(hits_left \o hits_right), 1, FALSE, FALSE, <<>>)

(***************************************************************************)
(* Compound assemblies                                                     *)
(***************************************************************************)
\* ShapeConfig::Cylinder
CappedCylinder(height, radius, material) ==
  LET half_height == RDiv(height, 2)
      body == InfiniteCylinder(ZERO, Y, radius, material)
      cap_top == Plane(<<0, half_height, 0>>, NEG_Y, material)
      cap_bottom == Plane(<<0, -half_height, 0>>, Y, material)
      capped_cylinder == CSGObject(body, cap_top, "Intersection")
  IN CSGObject(capped_cylinder, cap_bottom, "Intersection")

\* ShapeConfig::Cone; cos_angle_sq stands for cos(angle_deg.to_radians())^2
CappedCone(cos_angle_sq, height, material) ==
  LET cone == InfiniteCone(ZERO, Y, cos_angle_sq, material)
      cap == Plane(<<0, height, 0>>, NEG_Y, material)
  IN CSGObject(cone, cap, "Intersection")

\* Lens::new; an infinite radius of curvature is INF
Lens(center_thickness, diameter, r1, r2, material) ==
  LET half_thickness == RDiv(center_thickness, 2)
      s1 == IF r1 # INF /\ r1 # -INF
            THEN Sphere(<<0, 0, -half_thickness + r1>>, Abs(r1), material)
            ELSE Plane(<<0, 0, -half_thickness>>, Z, material)
      s2 == IF r2 # INF /\ r2 # -INF
            THEN Sphere(<<0, 0, half_thickness + r2>>, Abs(r2), material)
            ELSE Plane(<<0, 0, half_thickness>>, NEG_Z, material)
      infinite_lens == CSGObject(s1, s2, "Intersection")
      aperture_cylinder == InfiniteCylinder(ZERO, Z, RDiv(diameter, 2), material)
      final_lens == CSGObject(infinite_lens, aperture_cylinder, "Intersection")
  IN [kind |-> "Lens", csg_object |-> final_lens]

\* Wedge::new; angle_sin and angle_cos stand for wedge_angle_rad.sin() and .cos()
Wedge(size, angle_sin, angle_cos, material) ==
  LET half_depth == RDiv(size[3], 2)
      p1 == Plane(ZERO, Y, material)
      p2 == Plane(ZERO, X, material)
      p3 == Plane(ZERO, <<-angle_sin, angle_cos, 0>>, material)
      p4 == Plane(<<0, 0, half_depth>>, NEG_Z, material)
      p5 == Plane(<<0, 0, -half_depth>>, Z, material)
      csg1 == CSGObject(p1, p2, "Intersection")
      csg2 == CSGObject(csg1, p3, "Intersection")
      csg3 == CSGObject(csg2, p4, "Intersection")
      final_wedge == CSGObject(csg3, p5, "Intersection")
  IN [kind |-> "Wedge", csg_object |-> final_wedge]

(***************************************************************************)
(* glam::Mat4 for affine maps: the rows of the linear part and the         *)
(* translation.  Transform wraps a child and caches the inverse.           *)
(***************************************************************************)
Mat4(rows, translation) == [rows |-> rows, translation |-> translation]
IDENTITY == Mat4(<<X, Y, Z>>, ZERO)
from_translation(v) == Mat4(<<X, Y, Z>>, v)
\* Mat4::from_rotation_y, given the sine and cosine of the angle
from_rotation_y(sin, cos) == Mat4(<< <<cos, 0, sin>>, Y, <<-sin, 0, cos>> >>, ZERO)

\* Mat4::transform_vector3: the linear part only
transform_vector3(m, v) ==
  CHOOSE r \in { <<dot(mv.rows[1], u), dot(mv.rows[2], u), dot(mv.rows[3], u)>>
                 : mv \in {m}, u \in {v} } : TRUE
\* Mat4::transform_point3
transform_point3(m, p) ==
  CHOOSE r \in { VAdd(transform_vector3(mv, u), mv.translation) : mv \in {m}, u \in {p} } : TRUE

\* a * b of two affine maps
MatMul(a, b) ==
  LET col(k) == <<b.rows[1][k], b.rows[2][k], b.rows[3][k]>>
      row(r) == <<dot(a.rows[r], col(1)), dot(a.rows[r], col(2)), dot(a.rows[r], col(3))>>
  IN Mat4(<<row(1), row(2), row(3)>>, transform_point3(a, b.translation))

\* Mat4::transpose, as transform_vector3 sees it
transpose(m) ==
  Mat4(<< <<m.rows[1][1], m.rows[2][1], m.rows[3][1]>>,
          <<m.rows[1][2], m.rows[2][2], m.rows[3][2]>>,
          <<m.rows[1][3], m.rows[2][3], m.rows[3][3]>> >>, ZERO)

\* cofactor of the entry (r, c) of the linear part
Cofactor(rows, r, c) ==
  LET r1 == (r % 3) + 1
      r2 == ((r + 1) % 3) + 1
      c1 == (c % 3) + 1
      c2 == ((c + 1) % 3) + 1
  IN FMul(rows[r1][c1], rows[r2][c2]) - FMul(rows[r1][c2], rows[r2][c1])

\* Mat4::inverse of an invertible affine map: adjugate over determinant
inverse(m) ==
  LET det == FMul(m.rows[1][1], Cofactor(m.rows, 1, 1))
               + FMul(m.rows[1][2], Cofactor(m.rows, 1, 2))
               + FMul(m.rows[1][3], Cofactor(m.rows, 1, 3))
      inv_rows == [r \in 1..3 |-> [c \in 1..3 |-> FDiv(Cofactor(m.rows, c, r), det)]]
      linear == Mat4(inv_rows, ZERO)
  IN Mat4(inv_rows, VNeg(transform_vector3(linear, m.translation)))

\* Transform::new
Transform(object, transform) ==
  [kind |-> "Transform", object |-> object, transform |-> transform,
   inverse_transform |-> inverse(transform)]

\* step 1 of Transform::intersect_all: the ray in the child's space
Transform_local_ray(self, ray) ==
  Ray(transform_point3(self.inverse_transform, ray.origin),
      transform_vector3(self.inverse_transform, ray.direction),
      ray.current_ior)

\* step 3 of Transform::intersect_all: point and normal back in world space
Transform_world_hit(self, hit) ==
  [hit EXCEPT !.point = transform_point3(self.transform, hit.point),
              !.normal = normalize(transform_vector3(transpose(self.inverse_transform),
                                                     hit.normal))]

\* a Transform that hands the records back in the opposite order
Transform_world_hits_Reversed(self, hits) ==
  [k \in 1..Len(hits) |-> Transform_world_hit(self, hits[Len(hits) + 1 - k])]

\* the records of the child in the child's order, each mapped to world space
Transform_world_hits(self, hits) ==
  [k \in 1..Len(hits) |-> Transform_world_hit(self, hits[k])]

(***************************************************************************)
(* Hittable::intersect_all, dispatched on the kind of the object.  A list  *)
(* is returned; the empty list stands for None.                            *)
(***************************************************************************)
RECURSIVE intersect_all(_, _, _, _)
intersect_all(self, ray, t_min, t_max) ==
  CASE self.kind = "Sphere" -> Sphere_intersect_all(self, ray, t_min, t_max)
    [] self.kind = "Plane" -> Plane_intersect_all(self, ray, t_min, t_max)
    [] self.kind = "InfiniteCylinder" -> InfiniteCylinder_intersect_all(self, ray, t_min, t_max)
    [] self.kind = "InfiniteCone" -> InfiniteCone_intersect_all(self, ray, t_min, t_max)
    [] self.kind = "AxisAlignedBox" -> AxisAlignedBox_intersect_all(self, ray, t_min, t_max)
    [] self.kind = "CSGObject" ->
         CSGCombine(self.operation,
                    intersect_all(self.left, ray, t_min, t_max),
                    intersect_all(self.right, ray, t_min, t_max))
    [] self.kind = "Transform" ->
         Transform_world_hits(self, intersect_all(self.object, Transform_local_ray(self, ray),
                                                  t_min, t_max))
    [] self.kind = "Lens" -> intersect_all(self.csg_object, ray, t_min, t_max)
    [] self.kind = "Wedge" -> intersect_all(self.csg_object, ray, t_min, t_max)

(***************************************************************************)
(* reflect, refract (scene.rs).  refract returns a list: <<>> is None.     *)
(***************************************************************************)
reflect(incident, normal) ==
  VSub(incident, VScale(2 * dot(incident, normal), normal))

refract(incident, normal, ior_ratio) ==
  LET cos_theta == Min2(dot(VNeg(incident), normal), Q)
      sin_theta_squared == Q - FMul(cos_theta, cos_theta)
      perp == VScale(ior_ratio, VAdd(incident, VScale(cos_theta, normal)))
      parallel == VScale(-FSqrt(Abs(Q - length_squared(perp))), normal)
  IN IF FMul(FMul(ior_ratio, ior_ratio), sin_theta_squared) > Q THEN <<>>
     ELSE <<normalize(VAdd(perp, parallel))>>

(***************************************************************************)
(* The object scan of one bounce: closest_hit_record as a list (<<>> is    *)
(* None) after the objects from index j on have been searched.             *)
(***************************************************************************)
\* the self-intersection guard 0.001 (t_min of every search) and the 0.001
\* push-off of the new origin
T_MIN == 1
PUSH_OFF == 1

RECURSIVE ScanObjects_Le(_, _, _, _, _)
\* mutant: a later object with an equal t replaces the running best
ScanObjects_Le(objs, j, ray, t_closest, closest_hit_record) ==
  IF j > Len(objs) THEN closest_hit_record
  ELSE CHOOSE best \in
         { IF hits # <<>> /\ hits[1].t <= t_closest
           THEN ScanObjects_Le(objs, j + 1, ray, hits[1].t, <<hits[1]>>)
           ELSE ScanObjects_Le(objs, j + 1, ray, t_closest, closest_hit_record)
           : hits \in {intersect_all(objs[j], ray, T_MIN, t_closest)} } : TRUE

RECURSIVE ScanObjects(_, _, _, _, _)
\* for object in &self.objects, from index j on; hits is bound once per object
ScanObjects(objs, j, ray, t_closest, closest_hit_record) ==
  IF j > Len(objs) THEN closest_hit_record
  ELSE CHOOSE best \in
         { IF hits # <<>> /\ hits[1].t < t_closest
           THEN ScanObjects(objs, j + 1, ray, hits[1].t, <<hits[1]>>)
           ELSE ScanObjects(objs, j + 1, ray, t_closest, closest_hit_record)
           : hits \in {intersect_all(objs[j], ray, T_MIN, t_closest)} } : TRUE

ClosestHit(objs, ray) == ScanObjects(objs, 1, ray, INF, <<>>)

\* mutant: a mirror sends the ray back into air
Dispatch_MirrorResetsIor(ray, hit, u) ==
  LET material == hit.material
  IN CASE material.type = "Mirror" ->
            [ray EXCEPT !.direction = reflect(ray.direction, hit.normal),
                        !.current_ior = Q]
       [] material.type = "Glass" ->
            LET n1 == ray.current_ior
                n2 == IF hit.front_face THEN material.ior ELSE Q
                ior_ratio == FDiv(n1, n2)
                refracted_dir == refract(ray.direction, hit.normal, ior_ratio)
            IN IF refracted_dir # <<>>
               THEN [ray EXCEPT !.direction = refracted_dir[1], !.current_ior = n2]
               ELSE [ray EXCEPT !.direction = reflect(ray.direction, hit.normal)]
       [] material.type = "HalfMirror" ->
            IF u < material.reflectance
            THEN [ray EXCEPT !.direction = reflect(ray.direction, hit.normal)]
            ELSE ray

\* mutant: the Mirror arm consults the random source
Dispatch_MirrorDraws(ray, hit, u) ==
  LET material == hit.material
  IN CASE material.type = "Mirror" ->
            IF u < 500
            THEN [ray EXCEPT !.direction = reflect(ray.direction, hit.normal)]
            ELSE ray
       [] material.type = "Glass" ->
            LET n1 == ray.current_ior
                n2 == IF hit.front_face THEN material.ior ELSE Q
                ior_ratio == FDiv(n1, n2)
                refracted_dir == refract(ray.direction, hit.normal, ior_ratio)
            IN IF refracted_dir # <<>>
               THEN [ray EXCEPT !.direction = refracted_dir[1], !.current_ior = n2]
               ELSE [ray EXCEPT !.direction = reflect(ray.direction, hit.normal)]
       [] material.type = "HalfMirror" ->
            IF u < material.reflectance
            THEN [ray EXCEPT !.direction = reflect(ray.direction, hit.normal)]
            ELSE ray

\* mutant: total internal reflection also assigns current_ior
Dispatch_IorOnReflection(ray, hit, u) ==
  LET material == hit.material
  IN CASE material.type = "Mirror" ->
            [ray EXCEPT !.direction = reflect(ray.direction, hit.normal)]
       [] material.type = "Glass" ->
            LET n1 == ray.current_ior
                n2 == IF hit.front_face THEN material.ior ELSE Q
                ior_ratio == FDiv(n1, n2)
                refracted_dir == refract(ray.direction, hit.normal, ior_ratio)
            IN IF refracted_dir # <<>>
               THEN [ray EXCEPT !.direction = refracted_dir[1], !.current_ior = n2]
               ELSE [ray EXCEPT !.direction = reflect(ray.direction, hit.normal),
                                !.current_ior = n2]
       [] material.type = "HalfMirror" ->
            IF u < material.reflectance
            THEN [ray EXCEPT !.direction = reflect(ray.direction, hit.normal)]
            ELSE ray

\* mutant: a refraction stores the ratio n1 / n2 as current_ior
Dispatch_IorRatio(ray, hit, u) ==
  LET material == hit.material
  IN CASE material.type = "Mirror" ->
            [ray EXCEPT !.direction = reflect(ray.direction, hit.normal)]
       [] material.type = "Glass" ->
            LET n1 == ray.current_ior
                n2 == IF hit.front_face THEN material.ior ELSE Q
                ior_ratio == FDiv(n1, n2)
                refracted_dir == refract(ray.direction, hit.normal, ior_ratio)
            IN IF refracted_dir # <<>>
               THEN [ray EXCEPT !.direction = refracted_dir[1], !.current_ior = ior_ratio]
               ELSE [ray EXCEPT !.direction = reflect(ray.direction, hit.normal)]
       [] material.type = "HalfMirror" ->
            IF u < material.reflectance
            THEN [ray EXCEPT !.direction = reflect(ray.direction, hit.normal)]
            ELSE ray

\* mutant: the half mirror reflects when the drawn value is at most the reflectance
Dispatch_DrawLe(ray, hit, u) ==
  LET material == hit.material
  IN CASE material.type = "Mirror" ->
            [ray EXCEPT !.direction = reflect(ray.direction, hit.normal)]
       [] material.type = "Glass" ->
            LET n1 == ray.current_ior
                n2 == IF hit.front_face THEN material.ior ELSE Q
                ior_ratio == FDiv(n1, n2)
                refracted_dir == refract(ray.direction, hit.normal, ior_ratio)
            IN IF refracted_dir # <<>>
               THEN [ray EXCEPT !.direction = refracted_dir[1], !.current_ior = n2]
               ELSE [ray EXCEPT !.direction = reflect(ray.direction, hit.normal)]
       [] material.type = "HalfMirror" ->
            IF u <= material.reflectance
            THEN [ray EXCEPT !.direction = reflect(ray.direction, hit.normal)]
            ELSE ray

\* the match on hit.material; u is the value drawn from the random source
Dispatch(ray, hit, u) ==
  LET material == hit.material
  IN CASE material.type = "Mirror" ->
            [ray EXCEPT !.direction = reflect(ray.direction, hit.normal)]
       [] material.type = "Glass" ->
            LET n1 == ray.current_ior
                n2 == IF hit.front_face THEN material.ior ELSE Q
                ior_ratio == FDiv(n1, n2)
                refracted_dir == refract(ray.direction, hit.normal, ior_ratio)
            IN IF refracted_dir # <<>>
               THEN [ray EXCEPT !.direction = refracted_dir[1], !.current_ior = n2]
               ELSE [ray EXCEPT !.direction = reflect(ray.direction, hit.normal)]
       [] material.type = "HalfMirror" ->
            IF u < material.reflectance
            THEN [ray EXCEPT !.direction = reflect(ray.direction, hit.normal)]
            ELSE ray

\* mutant: the new origin is pushed off along the incoming direction
AfterHit_PushIncoming(ray, hit, u) ==
  LET r2 == Dispatch(ray, hit, u)
  IN [r2 EXCEPT !.origin = VAdd(hit.point, VScale(PUSH_OFF, ray.direction))]

\* mutant: the new origin is the hit point itself
AfterHit_NoPush(ray, hit, u) ==
  LET r2 == Dispatch(ray, hit, u)
  IN [r2 EXCEPT !.origin = hit.point]

\* the ray after the hit branch of one bounce
AfterHit(ray, hit, u) ==
  LET r2 == Dispatch(ray, hit, u)
  IN [r2 EXCEPT !.origin = VAdd(hit.point, VScale(PUSH_OFF, r2.direction))]

\* the far-field vertex
FarPoint(ray, infinity_distance) ==
  VAdd(ray.origin, VScale(infinity_distance, ray.direction))

(***************************************************************************)
(* Bounds and the inputs drawn from them                                   *)
(***************************************************************************)
MaxBounces == 3
MaxRays == 2

G15 == Glass(1500)
HM == HalfMirror(500)
\* values the random source may return, in [0, 1)
Draws == {0, 499, 500, 999}

AirRay(o, d) == Ray(o, d, Q)

\* the scenes the runs start from, by number
\* the biconvex lens of two spheres of radius 12 whose centres are 4 apart
BiconvexLens ==
  CSGObject(Sphere(<<-2000, 0, 0>>, 12000, G15), Sphere(<<2000, 0, 0>>, 12000, G15),
            "Intersection")

SceneIds == 1..12
\* the scenes of closed solids, of CSG and Transform objects and of pruned searches
SolidSceneIds == {3, 4} \cup 13..17
Scene(n) ==
  CASE n = 1 -> <<Plane(ZERO, Y, Mirror)>>
    [] n = 2 -> <<Plane(<<-5000, 0, 0>>, X, Mirror), Plane(<<5000, 0, 0>>, NEG_X, Mirror)>>
    [] n = 3 -> <<Sphere(ZERO, 5000, G15)>>
    [] n = 4 -> <<AxisAlignedBox(<<-2000, -2000, -2000>>, <<2000, 2000, 2000>>, G15)>>
    [] n = 5 -> <<Plane(ZERO, Y, HM), Plane(<<0, -3000, 0>>, Y, HM)>>
    [] n = 6 -> <<Plane(<<5000, 0, 0>>, NEG_X, Mirror), Plane(<<5000, 0, 0>>, NEG_X, G15),
                  Sphere(<<10000, 0, 0>>, 5000, HM)>>
    [] n = 7 -> <<Sphere(<<10000, 0, 0>>, 5000, G15), Plane(<<5000, 0, 0>>, NEG_X, Mirror),
                  Plane(<<8000, 0, 0>>, NEG_X, Mirror)>>
    [] n = 8 -> <<Plane(ZERO, Y, G15)>>
    [] n = 9 -> <<>>
    [] n = 10 -> <<InfiniteCone(ZERO, Y, 500, Mirror), Plane(<<8000, 0, 0>>, NEG_X, G15)>>
    [] n = 11 -> <<Plane(ZERO, Y, Glass(500))>>
    [] n = 12 -> <<Plane(ZERO, Y, HalfMirror(0)), Plane(<<0, -3000, 0>>, Y, HalfMirror(Q))>>
    [] n = 13 -> <<BiconvexLens>>
    [] n = 14 -> <<AxisAlignedBox(<<-2000, -2000, -2000>>, <<2000, 2000, 2000>>, Glass(500))>>
    [] n = 15 -> <<Sphere(ZERO, 5000, Glass(500))>>
    [] n = 16 -> <<Plane(ZERO, NEG_X, Mirror), InfiniteCone(ZERO, Y, 500, Mirror)>>
    [] n = 17 -> <<AxisAlignedBox(<<2000, -2000, -2000>>, <<6000, 2000, 2000>>, Mirror),
                   CSGObject(Sphere(<<4000, 0, 0>>, 5000, G15), Sphere(ZERO, 3000, G15),
                             "Difference"),
                   Transform(Sphere(ZERO, 1000, G15), from_translation(<<-5000, 0, 0>>))>>

SceneRays(n) ==
  CASE n = 1 -> {AirRay(<<0, 5000, 0>>, <<600, -800, 0>>), AirRay(<<-3000, 4000, 0>>, NEG_Y),
                 AirRay(<<0, -4000, 0>>, X)}
    [] n = 2 -> {AirRay(ZERO, X), AirRay(<<1000, 0, 0>>, NEG_X), AirRay(<<0, 1000, 0>>, Y)}
    [] n = 3 -> {AirRay(<<-10000, 0, 0>>, X), AirRay(<<-10000, 5000, 0>>, X),
                 AirRay(<<-10000, 6000, 0>>, X)}
    [] n = 4 -> {AirRay(<<-10000, 0, 0>>, X), AirRay(<<0, 10000, 1000>>, NEG_Y),
                 AirRay(<<-10000, 3000, 0>>, X)}
    [] n = 5 -> {AirRay(<<0, 5000, 0>>, <<600, -800, 0>>), AirRay(<<1000, 4000, 0>>, NEG_Y)}
    [] n = 6 -> {AirRay(ZERO, X), AirRay(<<0, 1000, 0>>, X), AirRay(<<20000, 0, 0>>, NEG_X)}
    [] n = 7 -> {AirRay(ZERO, X), AirRay(<<6000, 0, 0>>, X), AirRay(<<0, 7000, 0>>, X)}
    [] n = 8 -> {Ray(<<0, -5000, 0>>, <<800, 600, 0>>, 1500), AirRay(<<0, 5000, 0>>, NEG_Y),
                 Ray(<<0, -5000, 0>>, Y, 1500)}
    [] n = 9 -> {AirRay(ZERO, X), AirRay(<<0, 1000, 0>>, Y)}
    [] n = 10 -> {AirRay(<<-5000, 2000, 0>>, X), AirRay(<<-5000, -2000, 0>>, X),
                  AirRay(<<-5000, 0, 3000>>, X)}
    [] n = 11 -> {AirRay(<<0, 5000, 0>>, NEG_Y), AirRay(<<0, 5000, 0>>, <<600, -800, 0>>)}
    [] n = 12 -> {AirRay(<<0, 5000, 0>>, <<600, -800, 0>>), AirRay(<<1000, 4000, 0>>, NEG_Y)}
    [] n = 13 -> {AirRay(<<-20000, 2000, 0>>, X), AirRay(<<-20000, 0, 0>>, X)}
    [] n = 14 -> {AirRay(<<-10000, 0, 0>>, X)}
    [] n = 15 -> {AirRay(<<-10000, 0, 0>>, X)}
    [] n = 16 -> {AirRay(<<-5000, -2000, 0>>, X)}
    [] n = 17 -> {AirRay(<<-10000, 0, 0>>, X), AirRay(<<-10000, 1500, 0>>, X)}

\* all sequences over S of length at most n
RECURSIVE SeqsUpTo(_, _)
SeqsUpTo(S, n) ==
  IF n = 0 THEN {<<>>}
  ELSE LET shorter == SeqsUpTo(S, n - 1)
       IN shorter \cup {Append(q, x) : q \in {r \in shorter : Len(r) = n - 1}, x \in S}

(***************************************************************************)
(* State                                                                   *)
(***************************************************************************)
VARIABLES
  objects,       \* Scene.objects
  rays,          \* Scene.rays
  setting,       \* SimulationSettingsConfig
  result,        \* result: Vec<Vec<Vec3>>
  i,             \* index into rays of the outer for loop (1-based)
  ray,           \* the clone traced by the current iteration
  path_points,   \* path_points of the current ray
  bounce,        \* iterations of the bounce loop started for the current ray
  pc,            \* position in simulate_rays
  hit_log,       \* history: per bounce of the current ray, the ray searched and the hit adopted
  drawn,         \* history: the value the random source returned in the last hit branch (0 if none was drawn)
  missed,        \* history: a search of the current ray found no hit
  log,           \* history: hit_log, missed and final ray of every finished ray
  probe,         \* input of a single intersect_all call (<<>> when unused)
  hits_left,     \* CSGObject::intersect_all: hits_left
  hits_right,    \* CSGObject::intersect_all: hits_right
  out,           \* value returned by the intersect_all call
  local_hits,    \* Transform::intersect_all: local_hits (<<>> is None)
  pstate         \* position in the intersect_all call

vars == <<objects, rays, setting, result, i, ray, path_points, bounce, pc,
          hit_log, drawn, missed, log, probe, hits_left, hits_right, out, local_hits, pstate>>

loopVars == <<objects, rays, setting, result, i, ray, path_points, bounce, pc,
              hit_log, drawn, missed, log>>
probeVars == <<probe, hits_left, hits_right, out, local_hits, pstate>>

NoRay == Ray(ZERO, ZERO, 0)

(***************************************************************************)
(* Scene::simulate_rays                                                    *)
(***************************************************************************)
InitOf(ids) ==
  /\ \E n \in ids :
       /\ objects = Scene(n)
       /\ rays \in SeqsUpTo(SceneRays(n), MaxRays)
  /\ setting \in [max_bounces : 0..MaxBounces, infinity_distance : {200 * Q}]
  /\ result = <<>>
  /\ i = 1
  /\ ray = NoRay
  /\ path_points = <<>>
  /\ bounce = 0
  /\ pc = "for_rays"
  /\ hit_log = <<>>
  /\ drawn = 0
  /\ missed = FALSE
  /\ log = <<>>
  /\ probe = <<>> /\ hits_left = <<>> /\ hits_right = <<>> /\ out = <<>>
  /\ local_hits = <<>> /\ pstate = "unused"

Init == InitOf(SceneIds)

SolidInit == InitOf(SolidSceneIds)

\* for ray in &self.rays { let mut ray = ray.clone(); path_points = vec![ray.origin]; ...
StartRay ==
  /\ pc = "for_rays"
  /\ i <= Len(rays)
  /\ ray' = rays[i]
  /\ path_points' = <<rays[i].origin>>
  /\ bounce' = 0
  /\ hit_log' = <<>>
  /\ drawn' = 0
  /\ missed' = FALSE
  /\ pc' = "for_bounces"
  /\ UNCHANGED <<objects, rays, setting, result, i, log>>
  /\ UNCHANGED probeVars

\* mutant: the trace works on the element of Scene.rays itself, not on a clone
BounceHit_InPlace ==
  /\ pc = "for_bounces"
  /\ bounce < setting.max_bounces
  /\ \E closest \in {ClosestHit(objects, ray)} :
        /\ closest # <<>>
        /\ \E u \in (IF closest[1].material.type = "HalfMirror" THEN Draws ELSE {0}) :
             /\ ray' = AfterHit(ray, closest[1], u)
             /\ rays' = [rays EXCEPT ![i] = AfterHit(ray, closest[1], u)]
             /\ drawn' = u
        /\ path_points' = Append(path_points, closest[1].point)
        /\ hit_log' = Append(hit_log, [ray |-> ray, hit |-> closest[1]])
  /\ bounce' = bounce + 1
  /\ UNCHANGED <<objects, setting, result, i, pc, missed, log>>
  /\ UNCHANGED probeVars

\* one iteration of the bounce loop in which the scan adopts a hit
BounceHit ==
  /\ pc = "for_bounces"
  /\ bounce < setting.max_bounces
  /\ \E closest \in {ClosestHit(objects, ray)} :
        /\ closest # <<>>
        /\ \E u \in (IF closest[1].material.type = "HalfMirror" THEN Draws ELSE {0}) :
             /\ ray' = AfterHit(ray, closest[1], u)
             /\ drawn' = u
        /\ path_points' = Append(path_points, closest[1].point)
        /\ hit_log' = Append(hit_log, [ray |-> ray, hit |-> closest[1]])
  /\ bounce' = bounce + 1
  /\ UNCHANGED <<objects, rays, setting, result, i, pc, missed, log>>
  /\ UNCHANGED probeVars

\* mutant: the miss branch does not break out of the bounce loop
BounceMiss_NoBreak ==
  /\ pc = "for_bounces"
  /\ bounce < setting.max_bounces
  /\ ClosestHit(objects, ray) = <<>>
  /\ path_points' = Append(path_points, FarPoint(ray, setting.infinity_distance))
  /\ missed' = TRUE
  /\ bounce' = bounce + 1
  /\ UNCHANGED <<objects, rays, setting, result, i, ray, hit_log, drawn, log, pc>>
  /\ UNCHANGED probeVars

\* one iteration of the bounce loop in which the scan finds nothing: far-field vertex, break
BounceMiss ==
  /\ pc = "for_bounces"
  /\ bounce < setting.max_bounces
  /\ ClosestHit(objects, ray) = <<>>
  /\ path_points' = Append(path_points, FarPoint(ray, setting.infinity_distance))
  /\ missed' = TRUE
  /\ bounce' = bounce + 1
  /\ pc' = "push"
  /\ UNCHANGED <<objects, rays, setting, result, i, ray, hit_log, drawn, log>>
  /\ UNCHANGED probeVars

\* mutant: the far-field vertex is appended when the budget runs out
LoopExit_AppendsFar ==
  /\ pc = "for_bounces"
  /\ bounce >= setting.max_bounces
  /\ path_points' = Append(path_points, FarPoint(ray, setting.infinity_distance))
  /\ pc' = "push"
  /\ UNCHANGED <<objects, rays, setting, result, i, ray, bounce, hit_log, drawn, missed, log>>
  /\ UNCHANGED probeVars

\* the range 0..max_bounces is exhausted
LoopExit ==
  /\ pc = "for_bounces"
  /\ bounce >= setting.max_bounces
  /\ pc' = "push"
  /\ UNCHANGED <<objects, rays, setting, result, i, ray, path_points, bounce,
                 hit_log, drawn, missed, log>>
  /\ UNCHANGED probeVars

\* mutant: the polyline is put in front of the earlier ones
PushPath_Prepend ==
  /\ pc = "push"
  /\ result' = <<path_points>> \o result
  /\ log' = Append(log, [hits |-> hit_log, missed |-> missed, ray |-> ray])
  /\ i' = i + 1
  /\ pc' = "for_rays"
  /\ UNCHANGED <<objects, rays, setting, ray, path_points, bounce, hit_log, drawn, missed>>
  /\ UNCHANGED probeVars

\* result.push(path_points)
PushPath ==
  /\ pc = "push"
  /\ result' = Append(result, path_points)
  /\ log' = Append(log, [hits |-> hit_log, missed |-> missed, ray |-> ray])
  /\ i' = i + 1
  /\ pc' = "for_rays"
  /\ UNCHANGED <<objects, rays, setting, ray, path_points, bounce, hit_log, drawn, missed>>
  /\ UNCHANGED probeVars

\* the outer loop is over: result is returned
Return ==
  /\ pc = "for_rays"
  /\ i > Len(rays)
  /\ pc' = "done"
  /\ UNCHANGED <<objects, rays, setting, result, i, ray, path_points, bounce,
                 hit_log, drawn, missed, log>>
  /\ UNCHANGED probeVars

Next == StartRay \/ BounceHit \/ BounceMiss \/ LoopExit \/ PushPath \/ Return

Spec == Init /\ [][Next]_vars

\* simulate_rays is a sequential function: it keeps running until it returns
FairSpec == Spec /\ WF_vars(Next)

\* simulate_rays on the scenes of solids
SolidSpec == SolidInit /\ [][Next]_vars

(***************************************************************************)
(* Properties of simulate_rays                                             *)
(***************************************************************************)
HitPoints(hits) == [k \in 1..Len(hits) |-> hits[k].hit.point]

\* a polyline that starts at origin, has one vertex per logged hit, and ends
\* with the far-field vertex of the ray r exactly when a search missed
PolylineShape(path, origin, hits, miss, r) ==
  /\ Len(hits) <= setting.max_bounces
  /\ miss => Len(hits) < setting.max_bounces
  /\ path = <<origin>> \o HitPoints(hits)
              \o (IF miss THEN <<FarPoint(r, setting.infinity_distance)>> ELSE <<>>)

\* C1: every polyline is the initial origin, one vertex per hit (at most
\* max_bounces), then one far-field vertex if and only if a search missed; a
\* ray whose max_bounces searches all hit has max_bounces + 1 vertices.
C1_PolylineShape ==
  /\ \A j \in 1..Len(result) :
       /\ PolylineShape(result[j], rays[j].origin, log[j].hits, log[j].missed, log[j].ray)
       /\ ~log[j].missed =>
            Len(log[j].hits) = setting.max_bounces /\ Len(result[j]) = setting.max_bounces + 1
  /\ pc \in {"for_bounces", "push"} =>
       PolylineShape(path_points, rays[i].origin, hit_log, missed, ray)

C1_Witness ==
  /\ pc = "done"
  /\ setting.max_bounces >= 2
  /\ \E j, k \in 1..Len(result) :
       /\ log[j].missed /\ Len(log[j].hits) >= 1
       /\ ~log[k].missed /\ Len(result[k]) = setting.max_bounces + 1

\* C2: the bounce loop of a ray runs at most max_bounces iterations and stops
\* at the first search that finds no hit, and simulate_rays returns.
C2_Terminates ==
  /\ [](bounce <= setting.max_bounces /\ (missed => pc # "for_bounces"))
  /\ <>(pc = "done")

C2_Witness ==
  /\ pc = "done"
  /\ setting.max_bounces >= 2
  /\ \E j \in 1..Len(log) : ~log[j].missed /\ Len(log[j].hits) = setting.max_bounces

RECURSIVE Traces(_, _, _, _, _)
\* the polylines one ray can produce in n more iterations of the bounce loop,
\* over the values the random source may return
Traces(objs, r, path, n, infinity_distance) ==
  IF n = 0 THEN {path}
  ELSE LET closest == ClosestHit(objs, r)
       IN IF closest = <<>> THEN {Append(path, FarPoint(r, infinity_distance))}
          ELSE UNION { Traces(objs, AfterHit(r, closest[1], u),
                              Append(path, closest[1].point), n - 1, infinity_distance)
                       : u \in Draws }

\* C3: one polyline per initial ray, and the j-th polyline is a trace of the
\* j-th ray of Scene.rays.
C3_InputOrder ==
  /\ Len(result) = (IF pc \in {"for_bounces", "push"} THEN i - 1 ELSE Min2(i - 1, Len(rays)))
  /\ Len(result) <= Len(rays)
  /\ pc = "done" => Len(result) = Len(rays)
  /\ \A j \in 1..Len(result) :
       result[j] \in Traces(objects, rays[j], <<rays[j].origin>>,
                            setting.max_bounces, setting.infinity_distance)

C3_Witness ==
  /\ pc = "done"
  /\ Len(rays) = 2
  /\ rays[1] # rays[2]
  /\ result[1] # result[2]
  /\ Len(result[1]) > 2

\* the t of every HitRecord any object returns for the ray r above the guard
AllReturnedTs(objs, r) ==
  UNION { {h[k].t : k \in 1..Len(h)} :
          h \in { intersect_all(objs[j], r, T_MIN, INF) : j \in 1..Len(objs) } }

\* C4: the adopted hit has the smallest t among all HitRecords the scene objects
\* return for the current ray; when no object returns a hit nothing is adopted
\* and the ray ends with the far-field vertex.
C4_AdoptsSmallestT ==
  /\ \A k \in 1..Len(hit_log) :
       \A t \in AllReturnedTs(objects, hit_log[k].ray) : hit_log[k].hit.t <= t
  /\ missed => AllReturnedTs(objects, ray) = {}

\* the first record each object returns for r, as a list per object
FirstHits(objs, r) ==
  [j \in 1..Len(objs) |->
     CHOOSE first \in { IF h = <<>> THEN <<>> ELSE <<h[1]>>
                        : h \in {intersect_all(objs[j], r, T_MIN, INF)} } : TRUE]

\* C5: when two objects return first hits with equal t, the hit of the object
\* that comes earlier in Scene.objects is the one adopted.
C5_TieEarlierWins ==
  \A k \in 1..Len(hit_log) :
    LET f == FirstHits(objects, hit_log[k].ray)
        adopted == hit_log[k].hit
    IN \A a, b \in 1..Len(objects) :
         (a < b /\ f[a] # <<>> /\ f[b] # <<>> /\ f[a][1].t = f[b][1].t
            /\ adopted.t = f[a][1].t /\ (\A c \in 1..(a - 1) : f[c] = <<>> \/ f[c][1].t # adopted.t))
         => adopted = f[a][1]

C5_Witness ==
  \E k \in 1..Len(hit_log) :
    LET f == FirstHits(objects, hit_log[k].ray)
    IN \E a, b \in 1..Len(objects) :
         /\ a < b /\ f[a] # <<>> /\ f[b] # <<>>
         /\ f[a][1].t = f[b][1].t
         /\ f[a][1] # f[b][1]
         /\ hit_log[k].hit.t = f[a][1].t

(***************************************************************************)
(* A single intersect_all call on one object: the arguments are drawn from *)
(* ProbeInputs, and for a CSGObject the two child lists are kept.          *)
(***************************************************************************)
ProbeOps == {"Union", "Intersection", "Difference"}

\* pairs of convex solids: overlapping, touching in one point, sharing a face,
\* one off the ray, one enclosing the whole search range
ConvexPairs ==
  LET SA == Sphere(ZERO, 5000, G15)
      SB == Sphere(<<3000, 0, 0>>, 5000, Mirror)
      ST == Sphere(<<10000, 0, 0>>, 5000, Mirror)
      SFar == Sphere(<<0, 20000, 0>>, 2000, Mirror)
      SU == Sphere(ZERO, 18000, Mirror)
      SD == Sphere(<<12000, 0, 0>>, 2000, Mirror)
      BA == AxisAlignedBox(<<0, -2000, -2000>>, <<5000, 2000, 2000>>, G15)
      BB == AxisAlignedBox(<<3000, -2000, -2000>>, <<8000, 2000, 2000>>, Mirror)
      BT == AxisAlignedBox(<<5000, -2000, -2000>>, <<9000, 2000, 2000>>, Mirror)
  IN {<<SA, SB>>, <<SA, ST>>, <<SA, SFar>>, <<SA, SU>>, <<SA, SD>>, <<SFar, SA>>,
      <<BA, BB>>, <<BA, BT>>, <<BA, SFar>>, <<SB, BA>>}

\* CSG nodes whose left child is a CSG node
NestedCSG ==
  LET SA == Sphere(ZERO, 5000, G15)
      SB == Sphere(<<3000, 0, 0>>, 5000, Mirror)
      SD == Sphere(<<12000, 0, 0>>, 2000, Mirror)
      ST == Sphere(<<10000, 0, 0>>, 5000, Mirror)
  IN {CSGObject(CSGObject(SA, SB, "Union"), SD, "Union"),
      CSGObject(CSGObject(SA, SB, "Difference"), SD, "Union"),
      CSGObject(CSGObject(SA, SB, "Intersection"), ST, "Union"),
      CSGObject(CSGObject(SA, SB, "Union"), ST, "Difference")}

\* the closed solids of the scene description
Solids ==
  {Sphere(ZERO, 5000, G15),
   AxisAlignedBox(<<0, -2000, -2000>>, <<5000, 2000, 2000>>, G15),
   CappedCylinder(4000, 3000, G15),
   CappedCone(500, 4000, G15),
   Lens(2000, 6000, 10000, -10000, G15),
   Wedge(<<4000, 4000, 4000>>, 600, 800, G15)}

\* rays along the x axis: from outside, from inside, backwards, and tangent
\* to the sphere of radius 5 about the origin
PairRays ==
  {AirRay(<<-10000, 0, 0>>, X), AirRay(<<1000, 0, 0>>, X), AirRay(<<20000, 0, 0>>, NEG_X),
   AirRay(<<-10000, 5000, 0>>, X), AirRay(<<4000, 0, 0>>, X)}

SolidRays ==
  PairRays \cup
  {AirRay(<<0, 0, -10000>>, Z), AirRay(ZERO, Z), AirRay(<<0, 10000, 0>>, NEG_Y),
   AirRay(<<0, 1000, 0>>, Y), AirRay(<<1000, 10000, 0>>, NEG_Y),
   AirRay(<<1000, -10000, 0>>, Y), AirRay(<<-6000, -8000, 0>>, <<600, 800, 0>>),
   AirRay(<<-10000, 1000, 0>>, X), AirRay(<<1000, 1000, 0>>, X)}

\* rays that climb and descend across the capped cylinder
SlantRays ==
  {AirRay(<<-6000, -8000, 0>>, <<600, 800, 0>>), AirRay(<<6000, 8000, 0>>, <<-600, -800, 0>>),
   AirRay(<<-10000, 1000, 0>>, X)}

\* the five primitives, the cone and the cylinder bare
Primitives ==
  {Sphere(ZERO, 5000, G15),
   Plane(<<10000, 0, 0>>, NEG_X, G15),
   Plane(<<0, -3000, 0>>, Y, Mirror),
   InfiniteCylinder(ZERO, Y, 3000, G15),
   InfiniteCone(ZERO, Y, 500, Mirror),
   AxisAlignedBox(<<0, -2000, -2000>>, <<5000, 2000, 2000>>, G15)}

\* rays across the cone about the y axis, above and below its vertex
ConeRays ==
  {AirRay(<<-5000, 2000, 0>>, X), AirRay(<<-5000, -2000, 0>>, X),
   AirRay(<<-5000, 0, 3000>>, X), AirRay(<<3000, 10000, 0>>, NEG_Y)}

\* Translate(position) * RotateY(angle) as ObjectConfig builds it
Placements ==
  {IDENTITY,
   from_translation(<<3000, 0, 0>>),
   MatMul(from_translation(<<0, 0, 1000>>), from_rotation_y(Q, 0)),
   MatMul(from_translation(<<3000, 0, 1000>>), from_rotation_y(600, 800))}

\* wrapped objects
Transforms ==
  {Transform(o, m) : o \in {Sphere(ZERO, 5000, G15), Plane(<<10000, 0, 0>>, NEG_X, G15)},
                     m \in Placements}
  \cup {Transform(AxisAlignedBox(<<0, -2000, -2000>>, <<5000, 2000, 2000>>, G15), m) :
          m \in {IDENTITY, from_translation(<<3000, 0, 0>>)}}

\* upper ends of the search range: unbounded, and a running best
ProbeTMax == {INF, 20000}

ProbeInputs ==
  {[obj |-> CSGObject(p[1], p[2], op), ray |-> r, t_min |-> T_MIN, t_max |-> m] :
     p \in ConvexPairs, op \in ProbeOps, r \in PairRays, m \in ProbeTMax}
  \cup {[obj |-> o, ray |-> r, t_min |-> T_MIN, t_max |-> m] :
          o \in NestedCSG, r \in PairRays, m \in ProbeTMax}
  \cup {[obj |-> o, ray |-> r, t_min |-> T_MIN, t_max |-> m] :
          o \in Solids, r \in SolidRays, m \in ProbeTMax}
  \cup {[obj |-> o, ray |-> r, t_min |-> T_MIN, t_max |-> m] :
          o \in Primitives, r \in SolidRays \cup ConeRays, m \in ProbeTMax}
  \cup {[obj |-> o, ray |-> r, t_min |-> T_MIN, t_max |-> m] :
          o \in Transforms, r \in PairRays \cup ConeRays, m \in ProbeTMax}
  \cup {[obj |-> CappedCylinder(4000, 3000, G15), ray |-> r, t_min |-> T_MIN, t_max |-> m] :
          r \in SlantRays, m \in ProbeTMax}

ProbeInit ==
  /\ objects = <<>> /\ rays = <<>>
  /\ setting = [max_bounces |-> 0, infinity_distance |-> 0]
  /\ result = <<>> /\ i = 1 /\ ray = NoRay /\ path_points = <<>> /\ bounce = 0
  /\ pc = "unused" /\ hit_log = <<>> /\ drawn = 0 /\ missed = FALSE /\ log = <<>>
  /\ probe \in ProbeInputs
  /\ hits_left = <<>> /\ hits_right = <<>> /\ out = <<>> /\ local_hits = <<>>
  /\ pstate = "called"

\* CSGObject::intersect_all, step 1: the lists of the two children
CSGChildren ==
  /\ pstate = "called"
  /\ probe.obj.kind = "CSGObject"
  /\ hits_left' = intersect_all(probe.obj.left, probe.ray, probe.t_min, probe.t_max)
  /\ hits_right' = intersect_all(probe.obj.right, probe.ray, probe.t_min, probe.t_max)
  /\ pstate' = "children"
  /\ UNCHANGED <<probe, out, local_hits>>
  /\ UNCHANGED loopVars

\* CSGObject::intersect_all, steps 2 and 3: merge, sort, filter, return
CSGFilter ==
  /\ pstate = "children"
  /\ out' = CSGCombine(probe.obj.operation, hits_left, hits_right)
  /\ pstate' = "returned"
  /\ UNCHANGED <<probe, hits_left, hits_right, local_hits>>
  /\ UNCHANGED loopVars

\* intersect_all of an object that is neither a CSGObject nor a Transform
CallSolid ==
  /\ pstate = "called"
  /\ probe.obj.kind \notin {"CSGObject", "Transform"}
  /\ out' = intersect_all(probe.obj, probe.ray, probe.t_min, probe.t_max)
  /\ pstate' = "returned"
  /\ UNCHANGED <<probe, hits_left, hits_right, local_hits>>
  /\ UNCHANGED loopVars

\* Transform::intersect_all: the child is searched with the local ray and the
\* same range, and its records are mapped back
CallTransform ==
  /\ pstate = "called"
  /\ probe.obj.kind = "Transform"
  /\ \E child_hits \in {intersect_all(probe.obj.object,
                                       Transform_local_ray(probe.obj, probe.ray),
                                       probe.t_min, probe.t_max)} :
       /\ local_hits' = child_hits
       /\ out' = Transform_world_hits(probe.obj, child_hits)
  /\ pstate' = "returned"
  /\ UNCHANGED <<probe, hits_left, hits_right>>
  /\ UNCHANGED loopVars

ProbeNext == CSGChildren \/ CSGFilter \/ CallSolid \/ CallTransform

ProbeSpec == ProbeInit /\ [][ProbeNext]_vars

(***************************************************************************)
(* Properties of CSGObject::intersect_all and of the closed solids         *)
(***************************************************************************)
RECURSIVE Contains(_, _)
\* brute-force membership of the point p in a solid
Contains(obj, p) ==
  CASE obj.kind = "Sphere" ->
         length_squared(VSub(p, obj.center)) < FMul(obj.radius, obj.radius)
    [] obj.kind = "AxisAlignedBox" ->
         \A k \in 1..3 : obj.min[k] < p[k] /\ p[k] < obj.max[k]
    [] obj.kind = "CSGObject" ->
         LET a == Contains(obj.left, p)
             b == Contains(obj.right, p)
         IN CASE obj.operation = "Union" -> a \/ b
              [] obj.operation = "Intersection" -> a /\ b
              [] obj.operation = "Difference" -> a /\ ~b

\* the t at which the ray passes between the inside and the outside of obj,
\* found by sampling membership half a unit before and after every whole t
\* (the probe rays and solids put every boundary on a whole t)
OracleCrossings(obj, r, t_min, t_max) ==
  {t \in {Q * k : k \in 1..40} :
     /\ t_min < t /\ t < t_max
     /\ Contains(obj, At(r, t - 500)) # Contains(obj, At(r, t + 500))}

CrossingTs(hits) == {hits[k].t : k \in 1..Len(hits)}

IsConvexPair(obj) ==
  obj.kind = "CSGObject" /\ <<obj.left, obj.right>> \in ConvexPairs

\* C6: for two convex solids and any ray, origin inside a solid included, the
\* crossings a CSGObject returns are exactly the t at which the ray passes the
\* boundary of op(A, B) according to the membership oracle (so the list is
\* empty exactly when the ray never meets the combined solid's boundary).
C6_MatchesOracle ==
  (pstate = "returned" /\ IsConvexPair(probe.obj)) =>
     LET expected == OracleCrossings(probe.obj, probe.ray, probe.t_min, probe.t_max)
     IN CrossingTs(out) = expected /\ Len(out) = Cardinality(expected)

RightIsUniverse ==
  /\ probe.obj.right.kind = "Sphere"
  /\ probe.t_max < INF
  /\ Contains(probe.obj.right, probe.ray.origin)
  /\ Contains(probe.obj.right, At(probe.ray, probe.t_max))
  /\ hits_right = <<>>

\* C8: when the right child contains the whole searched ray, Intersection
\* returns exactly the left child's list.
C8_UniverseRightKeepsLeft ==
  (/\ pstate = "returned"
   /\ probe.obj.kind = "CSGObject"
   /\ probe.obj.operation = "Intersection"
   /\ RightIsUniverse)
  => out = hits_left

\* a list sorted by t with an even number of entries, entering and leaving in turn
SortedPaired(hits) ==
  /\ Len(hits) % 2 = 0
  /\ \A k \in 1..(Len(hits) - 1) : hits[k].t <= hits[k + 1].t
  /\ \A k \in 1..Len(hits) : hits[k].front_face = (k % 2 = 1)

\* C9: for child lists that are sorted and paired and a ray that starts outside
\* both children, the list a CSGObject returns is sorted by t and has an even
\* number of entries that enter and leave in turn, equal t of a left and a right
\* crossing and nested CSG nodes included.
C9_OutputSortedPaired ==
  (/\ pstate = "returned"
   /\ (IsConvexPair(probe.obj) \/ probe.obj \in NestedCSG)
   /\ ~Contains(probe.obj.left, probe.ray.origin)
   /\ ~Contains(probe.obj.right, probe.ray.origin)
   /\ SortedPaired(hits_left)
   /\ SortedPaired(hits_right))
  => SortedPaired(out)

\* C10: every closed solid returns an even number of HitRecords, whatever the
\* ray and the search range.
C10_EvenHits ==
  (pstate = "returned" /\ probe.obj \in Solids) => Len(out) % 2 = 0

(***************************************************************************)
(* Records of the primitives: range, order, orientation                    *)
(***************************************************************************)
\* C11: every HitRecord a primitive returns has t strictly inside the search
\* range, t_min < t < t_max, whatever the ray origin and the range.
C11_StrictRange ==
  (pstate = "returned" /\ probe.obj \in Primitives)
  => \A k \in 1..Len(out) : probe.t_min < out[k].t /\ out[k].t < probe.t_max

\* a list of records in nondecreasing order of t
NondecreasingT(hits) ==
  \A k \in 1..(Len(hits) - 1) : hits[k].t <= hits[k + 1].t

\* C12: the list any hittable returns is in nondecreasing order of t, the
\* InfiniteCone with a negative quadratic coefficient included.
C12_ListsNondecreasing ==
  pstate = "returned" => NondecreasingT(out)

\* the unit normal of the surface of a primitive at a point of the surface,
\* pointing out of the primitive
outward_normal(self, point) ==
  CASE self.kind = "Sphere" -> VDivS(VSub(point, self.center), self.radius)
    [] self.kind = "Plane" -> self.normal
    [] self.kind = "InfiniteCylinder" ->
         LET projection == dot(VSub(point, self.axis_point), self.axis_dir)
             point_on_axis == VAdd(self.axis_point, VScale(projection, self.axis_dir))
         IN normalize(VSub(point, point_on_axis))
    [] self.kind = "InfiniteCone" ->
         LET pv == VSub(point, self.vertex)
             m == dot(pv, self.axis_dir)
         IN normalize(VSub(VScale(m, self.axis_dir), VScale(self.cos_angle_sq, pv)))
    [] self.kind = "AxisAlignedBox" -> calculate_normal(self, point)

\* C13: in every HitRecord of a primitive front_face is true exactly when
\* dot(D, outward_normal) < 0, and normal is outward_normal when front_face is
\* true and its opposite otherwise; the entry record of a box has front_face
\* true and its exit record has front_face false.
C13_FrontFaceAndNormal ==
  (pstate = "returned" /\ probe.obj \in Primitives)
  => \A k \in 1..Len(out) :
       \E n \in {outward_normal(probe.obj, out[k].point)} :
         /\ out[k].front_face = (dot(probe.ray.direction, n) < 0)
         /\ out[k].normal = IF out[k].front_face THEN n ELSE VNeg(n)

\* C14: the normal of every HitRecord of every hittable (primitive, Transform,
\* CSG Union, Intersection and Difference) faces the incoming ray:
\* dot(D, normal) <= 0.
C14_NormalFacesRay ==
  pstate = "returned"
  => \A k \in 1..Len(out) : dot(probe.ray.direction, out[k].normal) <= 0

(***************************************************************************)
(* Transform                                                               *)
(***************************************************************************)
\* the matrix moves points and leaves directions alone
IsTranslation(m) == m.rows = IDENTITY.rows

Tracing == pc \in {"for_bounces", "push"}

\* the ray as the hit branch of the k-th bounce left it
RayAfter(k) == IF k < Len(hit_log) THEN hit_log[k + 1].ray ELSE ray

\* the materials an object is made of
RECURSIVE Materials(_)
Materials(obj) ==
  CASE obj.kind = "CSGObject" -> Materials(obj.left) \cup Materials(obj.right)
    [] obj.kind = "Transform" -> Materials(obj.object)
    [] obj.kind \in {"Lens", "Wedge"} -> Materials(obj.csg_object)
    [] OTHER -> {obj.material}

\* the ior of every Glass material of the scene
GlassIors == { m.ior : m \in { x \in UNION { Materials(objects[j]) : j \in 1..Len(objects) } :
                                   x.type = "Glass" } }

\* C16: on a Glass{ior} hit, with n1 = current_ior and n2 = ior if front_face
\* else 1.0: when refract(D, N, n1 / n2) succeeds the direction is the refracted
\* one and current_ior becomes n2; when it fails (total internal reflection) the
\* direction becomes reflect(D, N) and current_ior is unchanged.
C16_GlassUpdatesIor ==
  Tracing =>
    \A k \in 1..Len(hit_log) :
      hit_log[k].hit.material.type = "Glass" =>
        \E before \in {hit_log[k].ray}, h \in {hit_log[k].hit}, after \in {RayAfter(k)} :
          \E n2 \in {IF h.front_face THEN h.material.ior ELSE Q} :
            \E refracted \in {refract(before.direction, h.normal,
                                      FDiv(before.current_ior, n2))} :
              IF refracted # <<>>
              THEN /\ after.direction = refracted[1]
                   /\ after.current_ior = n2
              ELSE /\ after.direction = reflect(before.direction, h.normal)
                   /\ after.current_ior = before.current_ior

\* a first ray that left the glass for air (current_ior 1.5 became 1.0), and a
\* second ray inside the glass that is totally reflected and keeps 1.5
C16_Witness ==
  /\ Tracing
  /\ Len(log) = 1
  /\ Len(log[1].hits) = 1
  /\ log[1].hits[1].hit.material.type = "Glass"
  /\ log[1].hits[1].ray.current_ior = 1500
  /\ log[1].ray.current_ior = Q
  /\ Len(hit_log) = 1
  /\ hit_log[1].hit.material.type = "Glass"
  /\ ~hit_log[1].hit.front_face
  /\ refract(hit_log[1].ray.direction, hit_log[1].hit.normal,
             FDiv(hit_log[1].ray.current_ior, Q)) = <<>>
  /\ ray.direction = reflect(hit_log[1].ray.direction, hit_log[1].hit.normal)
  /\ ray.current_ior = 1500

\* every initial ray is in a medium of refractive index at least 1
InitialIorAtLeastOne == \A j \in 1..Len(rays) : rays[j].current_ior >= Q

\* C17 as stated: with every initial current_ior >= 1 and every Glass ior > 0,
\* current_ior >= 1 in every state of the trace.
C17_IorStaysAtLeastOne_GlassPositive ==
  (Tracing /\ InitialIorAtLeastOne /\ \A n \in GlassIors : n > 0)
  => ray.current_ior >= Q

\* C17: with every initial current_ior >= 1 and every Glass ior >= 1,
\* current_ior >= 1 in every state of the trace, after any sequence of bounces.
C17_IorStaysAtLeastOne ==
  (Tracing /\ InitialIorAtLeastOne /\ \A n \in GlassIors : n >= Q)
  => ray.current_ior >= Q

\* a ray that entered glass of ior 1.5 from air and left it again
C17_Witness ==
  /\ Tracing
  /\ \A n \in GlassIors : n >= Q
  /\ Len(hit_log) >= 2
  /\ hit_log[1].ray.current_ior = Q
  /\ hit_log[1].hit.material = G15
  /\ hit_log[2].ray.current_ior = 1500
  /\ hit_log[2].hit.material = G15
  /\ RayAfter(2).current_ior = Q

\* C18: on a HalfMirror{r} hit the value u drawn from [0, 1) decides: the ray
\* is reflected if and only if u < r, and otherwise keeps its direction; its
\* current_ior is kept either way.  With r = 0 it is never reflected and with
\* r = 1 it always is.
C18_HalfMirrorDraw ==
  (Tracing /\ hit_log # <<>> /\ hit_log[Len(hit_log)].hit.material.type = "HalfMirror")
  => \E before \in {hit_log[Len(hit_log)].ray}, h \in {hit_log[Len(hit_log)].hit} :
       \E r \in {h.material.reflectance},
          reflected \in {reflect(before.direction, h.normal)} :
         /\ drawn \in 0..(Q - 1)
         /\ ray.current_ior = before.current_ior
         /\ ray.direction = IF drawn < r THEN reflected ELSE before.direction
         /\ r = 0 => ray.direction = before.direction
         /\ r = Q => ray.direction = reflected

\* a ray that passed a half mirror of reflectance 0 and is then turned back by
\* one of reflectance 1 although the value drawn is the largest
C18_Witness ==
  /\ Tracing
  /\ Len(hit_log) = 2
  /\ hit_log[1].hit.material = HalfMirror(0)
  /\ hit_log[2].ray.direction = hit_log[1].ray.direction
  /\ hit_log[2].hit.material = HalfMirror(Q)
  /\ drawn = 999
  /\ ray.direction = reflect(hit_log[2].ray.direction, hit_log[2].hit.normal)
  /\ ray.direction # hit_log[2].ray.direction

\* the current ray has escaped after at least one hit
EscapedAfterHit == pc = "push" /\ missed /\ hit_log # <<>>

\* C19 as stated: the far-field vertex of a ray that escapes after a hit is the
\* last hit point plus infinity_distance times the outgoing direction.
C19_FarFromLastHit ==
  EscapedAfterHit
  => path_points[Len(path_points)] =
       VAdd(hit_log[Len(hit_log)].hit.point,
            VScale(setting.infinity_distance, ray.direction))

\* C19: the far-field vertex of a ray that escapes after a hit is measured from
\* the pushed-off origin: it is the last hit point plus
\* (infinity_distance + 0.001) times the outgoing direction.
C19_FarFromPushedOrigin ==
  EscapedAfterHit
  => path_points[Len(path_points)] =
       VAdd(hit_log[Len(hit_log)].hit.point,
            VScale(setting.infinity_distance + PUSH_OFF, ray.direction))

\* the glass sphere of radius 5 crossed along its axis from (-10,0,0): entry,
\* exit, and the far-field vertex 200.001 beyond the exit
C19_Witness ==
  /\ EscapedAfterHit
  /\ path_points = << <<-10000, 0, 0>>, <<-5000, 0, 0>>, <<5000, 0, 0>>, <<205001, 0, 0>> >>

(***************************************************************************)
(* The capped Cylinder                                                     *)
(***************************************************************************)
\* the point p is inside the finite cylinder about the y axis
InFiniteCylinder(height, radius, p) ==
  /\ FMul(p[1], p[1]) + FMul(p[3], p[3]) < FMul(radius, radius)
  /\ Abs(p[2]) < RDiv(height, 2)

\* the t at which the ray passes between the inside and the outside of the
\* finite cylinder, found by sampling membership a quarter unit before and
\* after every half unit of t
FiniteCylinderCrossings(height, radius, r, t_min, t_max) ==
  {t \in {500 * k : k \in 1..60} :
     /\ t_min < t /\ t < t_max
     /\ InFiniteCylinder(height, radius, At(r, t - 250))
          # InFiniteCylinder(height, radius, At(r, t + 250))}

\* C20: for every ray that is not parallel to the axis, climbing or descending,
\* the capped Cylinder of ShapeConfig::Cylinder{height, radius} returns exactly
\* the crossings of the finite solid: no record lies at |y| > height / 2, and
\* the returned t are those at which the ray enters and leaves the finite
\* cylinder.
C20_CappedCylinderCrossings ==
  (/\ pstate = "returned"
   /\ probe.obj = CappedCylinder(4000, 3000, G15)
   /\ Abs(probe.ray.direction[1]) + Abs(probe.ray.direction[3]) > 0)
  => /\ \A k \in 1..Len(out) : Abs(out[k].point[2]) <= RDiv(4000, 2)
     /\ CrossingTs(out) =
          FiniteCylinderCrossings(4000, 3000, probe.ray, probe.t_min, probe.t_max)

(***************************************************************************)
(* The capped Cone                                                         *)
(***************************************************************************)
\* C21: the capped Cone of ShapeConfig::Cone{angle_deg, height} returns no
\* record on the mirror nappe: every returned crossing lies at local
\* 0 <= y <= height, for every ray.
C21_NoMirrorNappe ==
  (pstate = "returned" /\ probe.obj = CappedCone(500, 4000, G15))
  => \A k \in 1..Len(out) : 0 <= out[k].point[2] /\ out[k].point[2] <= 4000

(***************************************************************************)
(* Determinism and frame of simulate_rays                                  *)
(***************************************************************************)
\* no object of the scene is made of a HalfMirror material
NoHalfMirror ==
  \A j \in 1..Len(objects) : \A m \in Materials(objects[j]) : m.type # "HalfMirror"

\* the polylines the j-th ray can produce, whatever the random source returns
TracesOfRay(j) ==
  Traces(objects, rays[j], <<rays[j].origin>>, setting.max_bounces,
         setting.infinity_distance)

\* C22: in a scene without HalfMirror every run with the same scene, rays and
\* settings returns the same polylines: each ray has exactly one possible
\* polyline, whatever the random source returns, and the run returns it.
C22_Deterministic ==
  (pc = "done" /\ NoHalfMirror)
  => \A j \in 1..Len(rays) :
       /\ Cardinality(TracesOfRay(j)) = 1
       /\ result[j] \in TracesOfRay(j)

\* a finished run over glass: entry, exit and far-field vertex
C22_Witness ==
  /\ pc = "done"
  /\ NoHalfMirror
  /\ Len(rays) >= 1
  /\ Len(objects) >= 1
  /\ G15 \in Materials(objects[1])
  /\ Len(result[1]) = 4

\* in a scene without HalfMirror, equal rays have equal polylines wherever they
\* stand in Scene.rays, and each polyline is the one its ray produces alone
OwnRayOnly ==
  NoHalfMirror =>
    /\ \A j, k \in 1..Len(result) : rays[j] = rays[k] => result[j] = result[k]
    /\ \A j \in 1..Len(result) : TracesOfRay(j) = {result[j]}

\* C23: simulate_rays never changes Scene.objects or Scene.rays (a trace works
\* on its own clone of the ray), and in a scene without HalfMirror the polyline
\* of a ray depends neither on the other rays of Scene.rays nor on their order.
C23_SceneReadOnly ==
  /\ [][objects' = objects /\ rays' = rays]_vars
  /\ []OwnRayOnly

\* the same ray traced twice in one run, with hits, and the scene's copy of it
\* still at its start
C23_Witness ==
  /\ pc = "done"
  /\ NoHalfMirror
  /\ Len(rays) = 2
  /\ rays[1] = rays[2]
  /\ Len(result[1]) >= 3
  /\ result[1] = result[2]
  /\ result[2][1] = rays[2].origin
  /\ log[2].ray # rays[2]

(***************************************************************************)
(* The CSG walk: which child a merged hit belongs to, and what is emitted  *)
(***************************************************************************)
\* the child records with the side they came from, merged and sorted as
\* all_hits is
TaggedHits ==
  sort_by_t([k \in 1..Len(hits_left) |->
                [t |-> hits_left[k].t, side |-> "left", hit |-> hits_left[k]]]
            \o [k \in 1..Len(hits_right) |->
                [t |-> hits_right[k].t, side |-> "right", hit |-> hits_right[k]]])

\* the call was made on a CSGObject and has returned
CSGReturned == pstate = "returned" /\ probe.obj.kind = "CSGObject"

\* C24: in the CSG walk every merged hit flips the flag of the child that
\* returned it: a left hit flips in_left and a right hit flips in_right, also
\* when the right hit has the t of some left hit.
C24_FlipsOwnSide ==
  CSGReturned
  => \A k \in 1..Len(TaggedHits) :
       hit_is_on_left(hits_left, TaggedHits[k].hit) = (TaggedHits[k].side = "left")

\* the record a CSGObject is to emit for a merged hit of the given side
ExpectedEmit(operation, tagged) ==
  IF operation = "Difference" /\ tagged.side = "right"
  THEN [tagged.hit EXCEPT !.normal = VNeg(tagged.hit.normal),
                          !.front_face = ~tagged.hit.front_face]
  ELSE tagged.hit

RECURSIVE EmittedFrom(_, _, _, _)
\* the records emitted for the merged hits whose index is in picked, in order
EmittedFrom(operation, tagged, picked, k) ==
  IF k > Len(tagged) THEN <<>>
  ELSE (IF k \in picked THEN <<ExpectedEmit(operation, tagged[k])>> ELSE <<>>)
       \o EmittedFrom(operation, tagged, picked, k + 1)

\* C25: the output of a CSGObject is a sub-list of the merged child hits; under
\* Difference every emitted right hit has its normal negated and its front_face
\* inverted and every emitted left hit is unchanged; under Union and
\* Intersection every emitted hit is unchanged.
C25_EmitsChildRecords ==
  CSGReturned
  => \E merged \in {TaggedHits} :
       \E picked \in SUBSET (1..Len(merged)) :
         out = EmittedFrom(probe.obj.operation, merged, picked, 1)

(***************************************************************************)
(* What a bounce changes                                                   *)
(***************************************************************************)
\* the k-th bounce of the current ray hit Glass and was refracted
Refracted(k) ==
  /\ hit_log[k].hit.material.type = "Glass"
  /\ refract(hit_log[k].ray.direction, hit_log[k].hit.normal,
             FDiv(hit_log[k].ray.current_ior,
                  IF hit_log[k].hit.front_face THEN hit_log[k].hit.material.ior ELSE Q))
       # <<>>

\* C26: current_ior changes only in a bounce whose hit material is Glass and
\* whose refraction succeeds; Mirror hits, HalfMirror hits and Glass hits that
\* end in total internal reflection leave it unchanged, and so does the start
\* of a trace.
C26_IorChangesOnlyOnRefraction ==
  Tracing =>
    /\ RayAfter(0).current_ior = rays[i].current_ior
    /\ \A k \in 1..Len(hit_log) :
         RayAfter(k).current_ior # hit_log[k].ray.current_ior => Refracted(k)

\* a ray that refracts into the glass sphere (1.0 becomes 1.5) and is then
\* turned back by a mirror inside it, keeping 1.5
C26_Witness ==
  /\ Tracing
  /\ Len(hit_log) >= 2
  /\ hit_log[1].ray.current_ior = Q
  /\ Refracted(1)
  /\ RayAfter(1).current_ior = 1500
  /\ hit_log[2].hit.material.type = "Mirror"
  /\ RayAfter(2).current_ior = 1500
  /\ RayAfter(2).direction # hit_log[2].ray.direction

\* C27: after every hit, whatever the material branch, the new origin is
\* hit.point + 0.001 * (outgoing direction), and the vertex recorded in the
\* polyline is hit.point itself, not the pushed-off origin.
C27_PushOffAndVertex ==
  Tracing =>
    /\ Len(path_points) >= Len(hit_log) + 1
    /\ \A k \in 1..Len(hit_log) :
         \E after \in {RayAfter(k)}, h \in {hit_log[k].hit} :
           /\ after.origin = VAdd(h.point, VScale(PUSH_OFF, after.direction))
           /\ path_points[k + 1] = h.point
           /\ path_points[k + 1] # after.origin

\* a ray that passes one half mirror (direction kept) and is reflected by the
\* next (direction changed), pushed off along the new direction both times
C27_Witness ==
  /\ Tracing
  /\ Len(hit_log) = 2
  /\ hit_log[1].hit.material.type = "HalfMirror"
  /\ hit_log[2].hit.material.type = "HalfMirror"
  /\ hit_log[2].ray.direction = hit_log[1].ray.direction
  /\ ray.direction # hit_log[2].ray.direction
  /\ hit_log[2].ray.origin = VAdd(path_points[2], VScale(PUSH_OFF, hit_log[1].ray.direction))
  /\ ray.origin = VAdd(path_points[3], VScale(PUSH_OFF, ray.direction))

(***************************************************************************)
(* Adopted hits and the boundary of the solid                              *)
(***************************************************************************)
RECURSIVE IsClosedSolid(_)
\* a sphere, a box, or a CSG node of closed solids
IsClosedSolid(obj) ==
  CASE obj.kind \in {"Sphere", "AxisAlignedBox"} -> TRUE
    [] obj.kind = "CSGObject" -> IsClosedSolid(obj.left) /\ IsClosedSolid(obj.right)
    [] OTHER -> FALSE

RECURSIVE OnBoundary(_, _)
\* the point p is on the surface of the solid, to 0.002 in the radius of a
\* sphere; a point of a child's surface is on the surface of a CSG solid when
\* the other child does not take it away
OnBoundary(obj, p) ==
  CASE obj.kind = "Sphere" ->
         Abs(length_squared(VSub(p, obj.center)) - FMul(obj.radius, obj.radius))
           <= FMul(4, obj.radius)
    [] obj.kind = "AxisAlignedBox" ->
         /\ \A k \in 1..3 : obj.min[k] <= p[k] /\ p[k] <= obj.max[k]
         /\ \E k \in 1..3 : p[k] = obj.min[k] \/ p[k] = obj.max[k]
    [] obj.kind = "CSGObject" ->
         LET onL == OnBoundary(obj.left, p)
             onR == OnBoundary(obj.right, p)
             inL == Contains(obj.left, p) /\ ~onL
             inR == Contains(obj.right, p) /\ ~onR
         IN CASE obj.operation = "Union" -> (onL /\ ~inR) \/ (onR /\ ~inL)
              [] obj.operation = "Intersection" ->
                   (onL /\ (inR \/ onR)) \/ (onR /\ (inL \/ onL))
              [] obj.operation = "Difference" -> (onL /\ ~inR) \/ (onR /\ (inL \/ onL))

\* no point of the ray r strictly before t is on the other side of the solid
\* than the ray's first stretch (sampled every half unit)
NoEarlierCrossing(obj, r, t) ==
  \A a, b \in {500 * k : k \in 1..80} :
    (a < t - 10 /\ b < t - 10) => Contains(obj, At(r, a)) = Contains(obj, At(r, b))

\* C28: every hit the loop adopts is a boundary crossing of the solid that
\* returned it, also when the ray starts inside that solid: after refracting
\* into a Glass box or into the two-sphere lens the next adopted hit is the
\* nearest exit crossing of that solid, not a point of its interior and not a
\* surface of a child outside the combined solid.
C28_AdoptedHitsOnBoundary ==
  (Tracing /\ Len(objects) = 1 /\ IsClosedSolid(objects[1]))
  => \A k \in 1..Len(hit_log) :
       /\ OnBoundary(objects[1], hit_log[k].hit.point)
       /\ NoEarlierCrossing(objects[1], hit_log[k].ray, hit_log[k].hit.t)

(***************************************************************************)
(* current_ior and the side of the solid the ray is on                     *)
(***************************************************************************)
\* the scene is one Glass sphere or one Glass box
SingleGlassSolid ==
  /\ Len(objects) = 1
  /\ objects[1].kind \in {"Sphere", "AxisAlignedBox"}
  /\ objects[1].material.type = "Glass"

\* the medium the point p is in: the glass inside the solid, air outside
MediumAt(p) == IF Contains(objects[1], p) THEN objects[1].material.ior ELSE Q

\* C29: in a scene of one closed Glass{ior} solid in air, for a ray that
\* starts outside it with current_ior = 1, after every bounce current_ior is
\* ior exactly when the ray's origin is inside the solid and 1.0 exactly when
\* it is outside.
C29_IorTracksInside ==
  (/\ Tracing /\ SingleGlassSolid
   /\ rays[i].current_ior = Q /\ ~Contains(objects[1], rays[i].origin))
  => \A k \in 0..Len(hit_log) : RayAfter(k).current_ior = MediumAt(RayAfter(k).origin)

(***************************************************************************)
(* The scan bounded by the running best against the scan without a bound   *)
(***************************************************************************)
\* every object searched with t_max = +infinity; the first object whose first
\* hit has the minimum t gives the hit (<<>> when no object returns one)
UnprunedHit(objs, r) ==
  CHOOSE adopted \in
    { LET with == {j \in 1..Len(objs) : f[j] # <<>>}
          best == {j \in with : \A k \in with : f[j][1].t <= f[k][1].t}
      IN IF with = {} THEN <<>>
         ELSE f[CHOOSE j \in best : \A k \in best : j <= k]
      : f \in {FirstHits(objs, r)} } : TRUE

\* C30: bounding each object's search above by the running best adopts the
\* same hit as searching every object without an upper bound and taking the
\* first object whose first hit has the minimum t, for primitives, Transforms
\* and CSG objects alike.
C30_PruningKeepsAdoptedHit ==
  /\ \A k \in 1..Len(hit_log) : UnprunedHit(objects, hit_log[k].ray) = <<hit_log[k].hit>>
  /\ missed => UnprunedHit(objects, ray) = <<>>

====
